---- MODULE Spec2Model ----
(***************************************************************************)
(* Model of the Meshtastic LLM bridge (src/src/meshtastic_llm_bridge).     *)
(*                                                                         *)
(* Two threads are modelled: the main thread running                       *)
(* BridgeService.run_forever (the reconnect loop) and the transport's      *)
(* delivery thread running MeshtasticClient._on_receive and                *)
(* BridgeService._handle_message.  Text is a sequence of one-character     *)
(* strings, so that prefix tests, slicing and whitespace stripping are     *)
(* computed as the Python code computes them.                              *)
(***************************************************************************)
EXTENDS Integers, Sequences, FiniteSets, TLC

\* ------------------------------------------------------------------ bounds
\* Number of MeshtasticClient instances run_forever may create.
MaxClients == 1
\* Number of inbound packets the transport delivers.
MaxEvents == 2
\* Largest number of serial-port candidates connect() is given.
MaxPorts == 2
\* Number of KeyboardInterrupts the user raises.
MaxInterrupts == 1
\* Number of reconnect cycles in the specification of the loop alone.
MaxCycles == 6
\* Number of rows the specification of the store alone appends, and the
\* largest limit it queries with.
MaxRows == 3
\* Number of disconnect signals the transport sends to one session.
MaxSignals == 2
\* Number of close() calls the specification of close alone makes on one
\* session.
MaxCloses == 3
\* Longest text and largest chunk size the specification of chunk_text alone
\* draws.
MaxLen == 4
MaxChunk == 3
\* Largest number of history records the specification of build_prompt alone
\* draws.
MaxHistory == 2
MaxLimit == 2
\* Threads that share the store in the specification of its lock (the main
\* thread and the delivery threads), and store calls each of them makes.
MaxThreads == 3
MaxCalls == 2

\* ------------------------------------------------------- program constants
\* run_forever: backoff = 2.0
BackoffStart == 2
\* run_forever: min(backoff * 2, 30.0)
BackoffCap == 30
\* OllamaClient.__init__: max_retries: int = 3
max_retries == 3

\* Python's None for an optional integer (from_num, to_num, channel,
\* latency_ms).  It is distinct from every integer the model uses, 0 included.
None == -1
\* An absent optional string (fromId, toId, message_id, a display name) is
\* the empty text: every use in the code is a truthiness test, which treats
\* None and "" alike.
NoStr == << >>

\* ------------------------------------------------------------ text helpers
\* str.isspace() for the characters of the model's alphabet.
IsSpace(c) == c \in {" ", "\n"}

\* str.startswith
StartsWith(text, prefix) ==
    /\ Len(prefix) <= Len(text)
    /\ SubSeq(text, 1, Len(prefix)) = prefix

\* str.lstrip()
RECURSIVE LStrip(_)
LStrip(text) ==
    IF text # << >> /\ IsSpace(Head(text)) THEN LStrip(Tail(text)) ELSE text

\* str.rstrip()
RECURSIVE RStrip(_)
RStrip(text) ==
    IF text # << >> /\ IsSpace(text[Len(text)])
    THEN RStrip(SubSeq(text, 1, Len(text) - 1))
    ELSE text

\* str.strip()
Strip(text) == RStrip(LStrip(text))

\* str.split(): the maximal runs of non-whitespace characters, in order.
RECURSIVE SplitFrom(_, _, _)
SplitFrom(text, word, acc) ==
    IF text = << >>
    THEN IF word = << >> THEN acc ELSE Append(acc, word)
    ELSE IF IsSpace(Head(text))
         THEN SplitFrom(Tail(text), << >>,
                        IF word = << >> THEN acc ELSE Append(acc, word))
         ELSE SplitFrom(Tail(text), Append(word, Head(text)), acc)

Split(text) == SplitFrom(text, << >>, << >>)

\* " ".join(words)
RECURSIVE JoinSpace(_)
JoinSpace(words) ==
    IF words = << >> THEN << >>
    ELSE IF Len(words) = 1 THEN words[1]
    ELSE words[1] \o <<" ">> \o JoinSpace(Tail(words))

\* str(n) for a non-negative integer: its decimal digits.
Digit(d) == CASE d = 0 -> "0" [] d = 1 -> "1" [] d = 2 -> "2" [] d = 3 -> "3"
              [] d = 4 -> "4" [] d = 5 -> "5" [] d = 6 -> "6" [] d = 7 -> "7"
              [] d = 8 -> "8" [] d = 9 -> "9"

RECURSIVE Str(_)
Str(n) == IF n < 10 THEN <<Digit(n)>> ELSE Str(n \div 10) \o <<Digit(n % 10)>>

Min(a, b) == IF a <= b THEN a ELSE b

\* ---------------------------------------------------------------- prompt.py
\* A faulty variant of strip_trigger_prefix: the whitespace after the prefix
\* is kept.
strip_trigger_prefix_NoLStrip(text, prefix) ==
    IF prefix # << >> /\ StartsWith(text, prefix)
    THEN SubSeq(text, Len(prefix) + 1, Len(text))
    ELSE text

strip_trigger_prefix(text, prefix) ==
    IF prefix # << >> /\ StartsWith(text, prefix)
    THEN LStrip(SubSeq(text, Len(prefix) + 1, Len(text)))
    ELSE text

normalize_reply(text) == JoinSpace(Split(Strip(text)))

\* A faulty variant of enforce_max_length: the cut text is not stripped.
enforce_max_length_NoRStrip(text, max_chars) ==
    IF Len(text) <= max_chars THEN text
    ELSE SubSeq(text, 1, max_chars)

enforce_max_length(text, max_chars) ==
    IF Len(text) <= max_chars THEN text
    ELSE RStrip(SubSeq(text, 1, max_chars))

\* A faulty variant of chunk_text: a last segment shorter than chunk_size is
\* dropped.
chunk_text_DropsTail(text, chunk_size) ==
    IF chunk_size <= 0 THEN <<text>>
    ELSE [k \in 1..(Len(text) \div chunk_size) |->
            SubSeq(text, (k - 1) * chunk_size + 1, k * chunk_size)]

chunk_text(text, chunk_size) ==
    IF chunk_size <= 0 THEN <<text>>
    ELSE [k \in 1..((Len(text) + chunk_size - 1) \div chunk_size) |->
            SubSeq(text, (k - 1) * chunk_size + 1,
                   Min(k * chunk_size, Len(text)))]

\* "\n".join(lines)
RECURSIVE JoinLines(_)
JoinLines(lines) ==
    IF lines = << >> THEN << >>
    ELSE IF Len(lines) = 1 THEN lines[1]
    ELSE lines[1] \o <<"\n">> \o JoinLines(Tail(lines))

\* The fixed pieces of text of build_prompt are single elements of a text:
\* no character of a name, an id or a message can stand for one of them.
SYSTEM_PROMPT == <<"Reply briefly in 10 words or less.">>

\* build_prompt, lines 42-43.
sender_name(message) ==
    IF message.sender_short_name # NoStr THEN message.sender_short_name
    ELSE IF message.sender_long_name # NoStr THEN message.sender_long_name
    ELSE <<"Unknown">>

\* build_prompt, lines 44-47.
channel_label(message) ==
    IF message.is_dm THEN <<"DM">>
    ELSE IF message.channel # None THEN Str(message.channel)
    ELSE <<"unknown">>

\* build_prompt, lines 49-55: the long name goes in second when there is one
\* and it is not the name of the first line.
header_lines(message) ==
    LET first == <<"Sender: ">> \o sender_name(message)
        rest == << <<"Sender ID: ">> \o message.sender_id,
                   <<"Channel: ">> \o channel_label(message) >>
    IN IF /\ message.sender_long_name # NoStr
          /\ message.sender_long_name # sender_name(message)
       THEN << first,
               <<"Sender Long Name: ">> \o message.sender_long_name >> \o rest
       ELSE <<first>> \o rest

\* A faulty variant of history_role: every record is the user's.
history_role_AlwaysUser(direction) == "User"

\* build_prompt, line 59.
history_role(direction) == IF direction = "in" THEN "User" ELSE "Assistant"

\* build_prompt, lines 57-62.
history_block(history) ==
    IF history = << >> THEN <<"(none)">>
    ELSE JoinLines([i \in 1..Len(history) |->
             <<history_role(history[i].direction), ": ">> \o history[i].text])

\* build_prompt, lines 64-77.
build_prompt(message, history, max_reply_chars) ==
    [system |-> SYSTEM_PROMPT,
     user |-> JoinLines(header_lines(message) \o
                << <<"Message:">>,
                   message.text,
                   << >>,
                   <<"Conversation history:">>,
                   history_block(history),
                   << >>,
                   <<"Reply in <= ">> \o Str(max_reply_chars)
                       \o <<" characters.">> >>)]

\* No prompt has been built.
NoPrompt == [system |-> << >>, user |-> << >>]

\* ------------------------------------------------------------ input domains
\* The identity of the local radio node, as its interface reports it.
SelfNode == [num |-> 1, id |-> <<"!", "s">>]
SelfNum == SelfNode.num
SelfId == SelfNode.id
\* meshtastic_client.py: BROADCAST_NUMS = {0, 0xFFFFFFFF}.  0xFFFFFFFF is
\* beyond TLC's 32-bit integers; the largest one stands for it (node
\* numbers are only compared and rendered, never computed with).
BroadcastAddr == 2147483647
BROADCAST_NUMS == {0, BroadcastAddr}
\* meshtastic_client.py: BROADCAST_IDS = {"^all", "all", "broadcast"}
BROADCAST_IDS == { <<"^", "a", "l", "l">>, <<"a", "l", "l">>,
                   <<"b", "r", "o", "a", "d", "c", "a", "s", "t">> }

\* Settings the bridge is started with (config.py: Settings).  They are read
\* once and never change.  max_reply_chars and memory_turns are positive
\* (their validators reject anything else).
SettingsSet ==
    { [trigger_prefix |-> <<"!">>, respond_to_dms_only |-> FALSE,
       allowed_channels |-> {}, allowed_senders |-> {},
       max_reply_chars |-> 2, memory_turns |-> 1],
      [trigger_prefix |-> << >>, respond_to_dms_only |-> TRUE,
       allowed_channels |-> {}, allowed_senders |-> {},
       max_reply_chars |-> 2, memory_turns |-> 1],
      [trigger_prefix |-> <<"!">>, respond_to_dms_only |-> FALSE,
       allowed_channels |-> {2}, allowed_senders |-> {<<"7">>},
       max_reply_chars |-> 2, memory_turns |-> 1] }

\* Texts a packet may carry: prefix and content, no prefix, prefix alone.
Texts == { <<"!", " ", "h">>, <<"h">>, <<"!", " ">> }

\* (from, fromId) of a packet: another node, the local node known by its
\* number, the local node known by its string id.
Senders == { [from |-> 7, fromId |-> <<"!", "a">>],
             [from |-> SelfNum, fromId |-> NoStr],
             [from |-> None, fromId |-> SelfId] }

\* (to, toId, channel) of a packet: a broadcast on channel 1, a direct
\* message to the local node.
Dests == { [to |-> BroadcastAddr, toId |-> <<"^", "a", "l", "l">>,
            channel |-> 1],
           [to |-> SelfNum, toId |-> SelfId, channel |-> None] }

\* rxTime of a packet (the radio's clock) and readings of time.time().
RxTimes == {1}
NowTimes == {2}

\* Raw packets the transport publishes on "meshtastic.receive".
Packets ==
    { [text |-> t, from |-> s.from, fromId |-> s.fromId, to |-> d.to,
       toId |-> d.toId, channel |-> d.channel, rxTime |-> r, id |-> None] :
      t \in Texts, s \in Senders, d \in Dests, r \in RxTimes }

\* Bodies the inference backend may answer with, and measured latencies.
Responses == { <<" ">>, <<"a", " ", "b">> }
Latencies == {3}

\* The node directory of an open interface (interface.nodes): display names
\* by node number.
NodeNames(from_num) ==
    IF from_num = 7 THEN [short |-> <<"A">>, long |-> <<"A", "l">>]
    ELSE [short |-> NoStr, long |-> NoStr]

\* -------------------------------------------------------------------- state
VARIABLES
    settings,   \* BridgeService._settings
    clients,    \* every MeshtasticClient created so far, in creation order
    client,     \* BridgeService._client: index into clients, 0 for None
    storage,    \* SQLiteStorage: the rows of table messages, and whether closed
    mpc,        \* main thread: position in run_forever
    backoff,    \* run_forever's local backoff
    nports,     \* connect(): number of candidates in ports (0 outside connect)
    porti,      \* connect(): index of the candidate tried (0 outside connect)
    brk,        \* run_forever: a break is pending while finally runs
    hpc,        \* delivery thread: position in _handle_message
    message,    \* the InboundMessage being handled
    h,          \* _handle_message's locals
    obs,        \* what the handler did for the current event (observation only)
    nevents,    \* packets delivered so far
    interrupted \* where in run_forever each KeyboardInterrupt so far arrived

vars == <<settings, clients, client, storage, mpc, backoff, nports, porti, brk,
          hpc, message, h, obs, nevents, interrupted>>

mainVars == <<mpc, backoff, nports, porti, brk, interrupted>>
handlerVars == <<hpc, message, h, obs, nevents>>

\* ------------------------------------------------------ meshtastic_client.py
\* An interface that reports nothing about the local node.
NoInfo == [nums |-> {}, ids |-> {}]

\* MeshtasticClient.__init__.  local_node is what the interface held in
\* _interface reports about the local node (getMyNodeInfo(), localNode).
\* signals and wait_returns are observations: the disconnect signals this
\* instance has received since its event was last cleared, and the times its
\* wait_for_disconnect has returned.
NewClient ==
    [interface |-> "none", local_node |-> NoInfo,
     subscribed |-> FALSE, disconnect_event |-> FALSE,
     signals |-> 0, wait_returns |-> 0,
     self_node_ids |-> {}, self_node_nums |-> {}]

\* A faulty variant of refresh_self_ids: nothing is recorded.
refresh_self_ids_Skip(c, info) == c

\* MeshtasticClient._refresh_self_ids: adds what the interface reports of the
\* local node; info is what getMyNodeInfo()/localNode yield (either part may
\* be missing, and every failure is swallowed).
refresh_self_ids(c, info) ==
    IF c.interface = "none" THEN c
    ELSE [c EXCEPT !.self_node_nums = @ \cup info.nums,
                   !.self_node_ids = @ \cup info.ids]

\* What an interface may report about the local node.
SelfInfos == { NoInfo,
               [nums |-> {SelfNum}, ids |-> {SelfId}] }

\* MeshtasticClient._subscribe
subscribe(c) == [c EXCEPT !.subscribed = TRUE]

\* A faulty variant of close: the handlers stay subscribed.
close_StaysSubscribed(c) ==
    [c EXCEPT !.interface = "none", !.local_node = NoInfo,
              !.disconnect_event = FALSE, !.signals = 0]

\* A faulty variant of close: the handle is not reset.
close_KeepsHandle(c) ==
    [c EXCEPT !.disconnect_event = FALSE, !.signals = 0,
              !.subscribed = FALSE]

\* MeshtasticClient.close: the interface is closed (errors swallowed), the
\* handlers are unsubscribed, the handle and the event are cleared.
close(c) ==
    [c EXCEPT !.interface = "none", !.local_node = NoInfo,
              !.disconnect_event = FALSE, !.signals = 0,
              !.subscribed = FALSE]

\* A faulty variant of is_from_self: the string id is not compared.
is_from_self_NumsOnly(c, m) ==
    m.from_num # None /\ m.from_num \in c.self_node_nums

\* MeshtasticClient.is_from_self
is_from_self(c, m) ==
    IF m.from_num # None /\ m.from_num \in c.self_node_nums THEN TRUE
    ELSE IF m.sender_id \in c.self_node_ids THEN TRUE
    ELSE FALSE

\* str.lower() on the alphabet of the model's destination ids, whose only
\* upper-case letters are A and L.
LowerChar(c) == CASE c = "A" -> "a" [] c = "L" -> "l" [] OTHER -> c
Lower(text) == [i \in 1..Len(text) |-> LowerChar(text[i])]

\* MeshtasticClient._is_dm
is_dm(to_num, to_id) ==
    IF to_id # NoStr /\ Lower(to_id) \notin BROADCAST_IDS THEN TRUE
    ELSE IF to_num # None /\ to_num \notin BROADCAST_NUMS THEN TRUE
    ELSE FALSE

\* MeshtasticClient._lookup_sender_names
lookup_sender_names(c, from_num) ==
    IF c.interface = "none" THEN [short |-> NoStr, long |-> NoStr]
    ELSE NodeNames(from_num)

Unknown == <<"u", "n", "k", "n", "o", "w", "n">>

\* A packet with no field set.
NoPacket ==
    [text |-> << >>, from |-> None, fromId |-> NoStr, to |-> None,
     toId |-> NoStr, channel |-> None, rxTime |-> 0, id |-> None]

\* MeshtasticClient._parse_packet, for a packet with non-empty decoded text.
parse_packet(c, p) ==
    LET names == lookup_sender_names(c, p.from) IN
    [text |-> p.text,
     sender_id |-> IF p.fromId # NoStr THEN p.fromId
                   ELSE IF p.from # None THEN Str(p.from) ELSE Unknown,
     sender_short_name |-> names.short,
     sender_long_name |-> names.long,
     channel |-> p.channel,
     is_dm |-> is_dm(p.to, p.toId),
     rx_time |-> p.rxTime,
     from_num |-> p.from,
     to_num |-> p.to,
     to_id |-> p.toId,
     message_id |-> IF p.id # None THEN Str(p.id) ELSE NoStr,
     raw |-> p]

\* ---------------------------------------------------------------- storage.py
\* A faulty variant of add_message: the newest row is replaced.
add_message_Replace(rows, record) ==
    IF rows = << >> THEN <<record>>
    ELSE [rows EXCEPT ![Len(rows)] = record]

\* SQLiteStorage.add_message: one row appended (AUTOINCREMENT id = position).
add_message(rows, record) == Append(rows, record)

\* The positions of a sender's rows.
SenderRows(rows, sender_id) ==
    { i \in 1..Len(rows) : rows[i].sender_id = sender_id }

\* The orders in which SELECT ... ORDER BY timestamp DESC LIMIT ? may return
\* the sender's rows: every sequence of the right length, without repeats,
\* sorted by non-increasing timestamp, that leaves out no row newer than one
\* it holds.  SQL leaves the order of rows of equal timestamp open.
SelectRecent(rows, sender_id, limit) ==
    LET S == SenderRows(rows, sender_id)
        n == Min(limit, Cardinality(S))
    IN { q \in [1..n -> S] :
           /\ \A i, j \in 1..n : i < j =>
                /\ q[i] # q[j]
                /\ rows[q[i]].timestamp >= rows[q[j]].timestamp
           /\ \A k \in S : (\A i \in 1..n : q[i] # k) =>
                \A i \in 1..n : rows[q[i]].timestamp >= rows[k].timestamp }

\* SQLiteStorage.get_recent_messages: the selected rows, reversed.
get_recent_messages(rows, sender_id, limit) ==
    { [i \in 1..Len(q) |-> rows[q[Len(q) + 1 - i]]] :
      q \in SelectRecent(rows, sender_id, limit) }

\* A faulty variant of can_acquire: the lock is taken whoever holds it.
can_acquire_Always(lock) == TRUE

\* threading.Lock.acquire (with self._lock): it returns once no thread holds
\* the lock; 0 stands for no thread.
can_acquire(lock) == lock = 0

\* ------------------------------------------------------------------- main.py
\* A faulty variant of _should_respond: the numeric sender id is not a candidate.
should_respond_NoNumericId(st, m) ==
    IF st.respond_to_dms_only /\ ~m.is_dm THEN FALSE
    ELSE IF /\ st.allowed_channels # {}
            /\ ~m.is_dm
            /\ m.channel \notin st.allowed_channels THEN FALSE
    ELSE IF /\ st.allowed_senders # {}
            /\ m.sender_id \notin st.allowed_senders THEN FALSE
    ELSE IF /\ st.trigger_prefix # << >>
            /\ ~StartsWith(m.text, st.trigger_prefix) THEN FALSE
    ELSE TRUE

\* A faulty variant of _should_respond: DM-only mode is not looked at.
should_respond_NoDmOnly(st, m) ==
    IF /\ st.allowed_channels # {}
       /\ ~m.is_dm
       /\ m.channel \notin st.allowed_channels THEN FALSE
    ELSE IF /\ st.allowed_senders # {}
            /\ LET candidates ==
                     {m.sender_id} \cup
                     (IF m.from_num # None THEN {Str(m.from_num)} ELSE {})
               IN candidates \cap st.allowed_senders = {} THEN FALSE
    ELSE IF /\ st.trigger_prefix # << >>
            /\ ~StartsWith(m.text, st.trigger_prefix) THEN FALSE
    ELSE TRUE

\* BridgeService._should_respond
should_respond(st, m) ==
    IF st.respond_to_dms_only /\ ~m.is_dm THEN FALSE
    ELSE IF /\ st.allowed_channels # {}
            /\ ~m.is_dm
            /\ m.channel \notin st.allowed_channels THEN FALSE
    ELSE IF /\ st.allowed_senders # {}
            /\ LET candidates ==
                     {m.sender_id} \cup
                     (IF m.from_num # None THEN {Str(m.from_num)} ELSE {})
               IN candidates \cap st.allowed_senders = {} THEN FALSE
    ELSE IF /\ st.trigger_prefix # << >>
            /\ ~StartsWith(m.text, st.trigger_prefix) THEN FALSE
    ELSE TRUE

\* A faulty variant of destination: a reply to a channel message goes to
\* channel 0.
destination_NoChannel(m) ==
    IF m.is_dm
    THEN [destination_id |->
              IF StartsWith(m.sender_id, <<"!">>) THEN
                  [tag |-> "str", str |-> m.sender_id, num |-> None]
              ELSE IF m.from_num # None THEN
                  [tag |-> "int", str |-> NoStr, num |-> m.from_num]
              ELSE [tag |-> "str", str |-> m.sender_id, num |-> None],
          channel_index |-> None]
    ELSE [destination_id |-> [tag |-> "none", str |-> NoStr, num |-> None],
          channel_index |-> 0]

\* A destination_id is a string id, a node number or None.
DestStr(t) == [tag |-> "str", str |-> t, num |-> None]
DestNum(n) == [tag |-> "int", str |-> NoStr, num |-> n]
DestNone == [tag |-> "none", str |-> NoStr, num |-> None]
\* Python truthiness of a destination_id.
Truthy(d) == \/ d.tag = "str" /\ d.str # NoStr
             \/ d.tag = "int" /\ d.num # 0

\* _handle_message, lines 140-152: where the reply goes.
destination(m) ==
    IF m.is_dm
    THEN [destination_id |->
              IF StartsWith(m.sender_id, <<"!">>) THEN DestStr(m.sender_id)
              ELSE IF m.from_num # None THEN DestNum(m.from_num)
              ELSE DestStr(m.sender_id),
          channel_index |-> None]
    ELSE [destination_id |-> DestNone,
          channel_index |-> IF m.channel # None /\ m.channel # 0
                            THEN m.channel ELSE 0]

\* A faulty variant of not_connected: the handle is not looked at.
not_connected_Never(c) == FALSE

\* MeshtasticClient.send_text, lines 116-117: if not self._interface.
not_connected(c) == c.interface = "none"

\* MeshtasticClient.send_text, lines 119-125: the keyword arguments handed
\* to interface.sendText.
send_kwargs(destination_id, channel) ==
    [destinationId |-> IF Truthy(destination_id) THEN destination_id
                       ELSE DestNone,
     has_destinationId |-> Truthy(destination_id),
     channelIndex |-> channel,
     has_channelIndex |-> channel # None]

\* A faulty variant of inbound_record: the raw text is stored.
inbound_record_RawText(st, m) ==
    [direction |-> "in", sender_id |-> m.sender_id,
     sender_short_name |-> m.sender_short_name,
     sender_long_name |-> m.sender_long_name, channel |-> m.channel,
     text |-> m.text, timestamp |-> m.rx_time, latency_ms |-> None,
     message_id |-> m.message_id]

\* _handle_message, lines 83-93: the inbound record.
inbound_record(st, m) ==
    [direction |-> "in", sender_id |-> m.sender_id,
     sender_short_name |-> m.sender_short_name,
     sender_long_name |-> m.sender_long_name, channel |-> m.channel,
     text |-> strip_trigger_prefix(m.text, st.trigger_prefix),
     timestamp |-> m.rx_time, latency_ms |-> None,
     message_id |-> m.message_id]

\* A faulty variant of outbound_record: the latency is not stored.
outbound_record_NoLatency(m, reply, now, latency_ms) ==
    [direction |-> "out", sender_id |-> m.sender_id,
     sender_short_name |-> m.sender_short_name,
     sender_long_name |-> m.sender_long_name, channel |-> m.channel,
     text |-> reply, timestamp |-> now, latency_ms |-> None,
     message_id |-> NoStr]

\* _handle_message, lines 172-182: the outbound record.
outbound_record(m, reply, now, latency_ms) ==
    [direction |-> "out", sender_id |-> m.sender_id,
     sender_short_name |-> m.sender_short_name,
     sender_long_name |-> m.sender_long_name, channel |-> m.channel,
     text |-> reply, timestamp |-> now, latency_ms |-> latency_ms,
     message_id |-> NoStr]

\* _handle_message, line 184: except Exception.  Every error the handler's
\* collaborators raise is a subclass of Exception.
Exceptions == {"sqlite3.Error", "RuntimeError", "AttributeError", "OSError"}

\* A faulty variant of caught: only RuntimeError is caught.
caught_RuntimeErrorOnly(kind) == kind = "RuntimeError"

caught(kind) == kind \in Exceptions

NoMessage ==
    [text |-> << >>, sender_id |-> NoStr, sender_short_name |-> NoStr,
     sender_long_name |-> NoStr, channel |-> None, is_dm |-> FALSE,
     rx_time |-> 0, from_num |-> None, to_num |-> None, to_id |-> NoStr,
     message_id |-> NoStr, raw |-> NoPacket]

NoLocals ==
    [history |-> << >>, prompt |-> NoPrompt, attempt |-> 0,
     response |-> << >>, reply |-> << >>,
     latency_ms |-> None,
     chunks |-> << >>, idx |-> 0, destination_id |-> DestNone,
     channel_index |-> None]

NoObs ==
    [via |-> 0, raw |-> NoMessage, base |-> 0, checked |-> FALSE,
     self_nums |-> {}, self_ids |-> {}, admitted |-> FALSE,
     calls |-> << >>, attempts |-> 0, failures |-> 0, sent |-> << >>,
     log |-> << >>, raised |-> << >>, escaped |-> FALSE, earlier_errors |-> 0]

Init ==
    /\ settings \in SettingsSet
    /\ clients = << >>
    /\ client = 0
    /\ storage = [rows |-> << >>, closed |-> FALSE]
    /\ mpc = "loop"
    /\ backoff = BackoffStart
    /\ nports = 0
    /\ porti = 0
    /\ brk = FALSE
    /\ hpc = "idle"
    /\ message = NoMessage
    /\ h = NoLocals
    /\ obs = NoObs
    /\ nevents = 0
    /\ interrupted = << >>

\* ---------------------------------------------- run_forever (main thread)
\* Lines 37-42: a new MeshtasticClient becomes self._client and the handler
\* is registered on it.  At most limit clients are created.
CreateClientUpTo(limit) ==
    /\ mpc = "loop"
    /\ Len(clients) < limit
    /\ clients' = Append(clients, NewClient)
    /\ client' = Len(clients) + 1
    /\ mpc' = "connect"
    /\ UNCHANGED <<settings, storage, backoff, nports, porti, brk, interrupted>>
    /\ UNCHANGED handlerVars

CreateClient == CreateClientUpTo(MaxClients)

\* connect(), lines 51-53: the candidate list; an empty one raises, which
\* run_forever catches (bridge_error) before it runs finally.
ConnectStart ==
    /\ mpc = "connect"
    /\ \E n \in 0..MaxPorts :
         /\ nports' = n
         /\ IF n = 0 THEN porti' = 0 /\ mpc' = "finally"
                     ELSE porti' = 1 /\ mpc' = "try_port"
    /\ UNCHANGED <<settings, clients, client, storage, backoff, brk, interrupted>>
    /\ UNCHANGED handlerVars

\* connect(), lines 58-62, and run_forever, lines 45-47: the candidate
\* connects; the self identifiers are recorded, the handlers subscribed, the
\* port returned; backoff is reset and the thread waits for a disconnect.
TryPortOk ==
    /\ mpc = "try_port"
    /\ \E info \in SelfInfos :
         clients' = [clients EXCEPT ![client] =
             subscribe(refresh_self_ids([@ EXCEPT !.interface = "open",
                                                  !.local_node = info],
                                        info))]
    /\ backoff' = BackoffStart
    /\ mpc' = "wait"
    /\ nports' = 0
    /\ porti' = 0
    /\ UNCHANGED <<settings, client, storage, brk, interrupted>>
    /\ UNCHANGED handlerVars

\* connect(), lines 63-71: the candidate fails (_create_interface raises, so
\* _interface is not assigned); the next one is tried after a second, and
\* after the last one connect raises, which run_forever catches.
TryPortFail ==
    /\ mpc = "try_port"
    /\ IF porti < nports
       THEN porti' = porti + 1 /\ nports' = nports /\ mpc' = "try_port"
       ELSE porti' = 0 /\ nports' = 0 /\ mpc' = "finally"
    /\ UNCHANGED <<settings, clients, client, storage, backoff, brk,
                   interrupted>>
    /\ UNCHANGED handlerVars

\* wait_for_disconnect returns once the event is set.
WaitReturn ==
    /\ mpc = "wait"
    /\ clients[client].disconnect_event
    /\ clients' = [clients EXCEPT ![client].wait_returns = @ + 1]
    /\ mpc' = "finally"
    /\ UNCHANGED <<settings, client, storage, backoff, nports, porti,
                   brk, interrupted>>
    /\ UNCHANGED handlerVars

\* A KeyboardInterrupt raised in the main thread.  Inside the try statement
\* (lines 44-47) it is caught (lines 48-50): shutdown is logged and the loop
\* is left through finally.  Anywhere else in run_forever (lines 37-42, the
\* finally clause, the sleep of line 61, line 64) no handler is in scope and
\* it ends run_forever by propagating to main().
Interrupt ==
    /\ Len(interrupted) < MaxInterrupts
    /\ interrupted' = Append(interrupted, mpc)
    /\ \/ /\ mpc \in {"connect", "try_port", "wait"}
          /\ brk' = TRUE
          /\ mpc' = "finally"
       \/ /\ mpc \in {"loop", "finally", "sleep", "storage_close"}
          /\ brk' = brk
          /\ mpc' = "crashed"
    /\ nports' = 0
    /\ porti' = 0
    /\ UNCHANGED <<settings, clients, client, storage, backoff>>
    /\ UNCHANGED handlerVars

\* A faulty variant of AfterFinally: the loop is left after every cycle.
AfterFinally_AlwaysBreak(pending) == "storage_close"

\* Where run_forever goes once finally has run: out of the loop to line 64
\* when the break of line 50 is pending, else on to the sleep of line 61.
AfterFinally(pending) == IF pending THEN "storage_close" ELSE "sleep"

\* Lines 58-59: finally: self._client.close(); then the break, or on to the
\* sleep.
Finally ==
    /\ mpc = "finally"
    /\ clients' = [clients EXCEPT ![client] = close(@)]
    /\ mpc' = AfterFinally(brk)
    /\ UNCHANGED <<settings, client, storage, backoff, nports, porti, brk,
                   interrupted>>
    /\ UNCHANGED handlerVars

\* A faulty variant of NextBackoff: the delay is doubled without a cap.
NextBackoff_NoCap(b) == b * 2

\* Lines 61-62: time.sleep(backoff); backoff = min(backoff * 2, 30.0).
NextBackoff(b) == Min(b * 2, BackoffCap)

Sleep ==
    /\ mpc = "sleep"
    /\ backoff' = NextBackoff(backoff)
    /\ mpc' = "loop"
    /\ UNCHANGED <<settings, clients, client, storage, nports, porti, brk,
                   interrupted>>
    /\ UNCHANGED handlerVars

\* Line 64: self._storage.close().
StorageClose ==
    /\ mpc = "storage_close"
    /\ storage' = [storage EXCEPT !.closed = TRUE]
    /\ mpc' = "stopped"
    /\ UNCHANGED <<settings, clients, client, backoff, nports, porti, brk,
                   interrupted>>
    /\ UNCHANGED handlerVars

\* ------------------------------------------- transport events (pubsub thread)
\* A faulty variant of on_disconnect: the event is not set.
on_disconnect_NoSet(c) == [c EXCEPT !.signals = @ + 1]

\* MeshtasticClient._on_disconnect: self._disconnect_event.set().
on_disconnect(c) ==
    [c EXCEPT !.disconnect_event = TRUE, !.signals = @ + 1]

\* _on_disconnect: a connection lost/closed/error topic reaches a subscribed
\* client, whether or not an earlier one has.
OnDisconnect(c) ==
    /\ clients[c].subscribed
    /\ clients[c].signals < MaxSignals
    /\ clients' = [clients EXCEPT ![c] = on_disconnect(@)]
    /\ UNCHANGED <<settings, client, storage>>
    /\ UNCHANGED mainVars
    /\ UNCHANGED handlerVars

\* _on_connect: connection.established reaches a subscribed client, which
\* refreshes its self identifiers.
OnConnect(c) ==
    /\ clients[c].subscribed
    /\ \E info \in SelfInfos :
         /\ refresh_self_ids(clients[c], info) # clients[c]
         /\ clients' = [clients EXCEPT ![c] =
                refresh_self_ids([@ EXCEPT !.local_node = info], info)]
    /\ UNCHANGED <<settings, client, storage>>
    /\ UNCHANGED mainVars
    /\ UNCHANGED handlerVars

\* --------------------------------------- _handle_message (delivery thread)
Call(o, name) == [o EXCEPT !.calls = Append(@, name)]
Log(o, event) == [o EXCEPT !.log = Append(@, event)]

\* An exception of the given kind is raised inside the try statement of
\* _handle_message (lines 67-190): the except clause logs it and the handler
\* returns; an exception it does not catch reaches the delivery thread.
Raise(kind, o) ==
    LET r == [o EXCEPT !.raised = Append(@, kind)] IN
    IF caught(kind)
    THEN hpc' = "done" /\ obs' = Log(r, "message_handler_error")
    ELSE hpc' = "escaped" /\ obs' = [r EXCEPT !.escaped = TRUE]

\* _on_receive, lines 162-176: a packet with text reaches a subscribed client,
\* is parsed and handed to the registered callback.  One event is handled at
\* a time.
Deliver(c, p) ==
    /\ hpc \in {"idle", "done"}
    /\ nevents < MaxEvents
    /\ clients[c].subscribed
    /\ nevents' = nevents + 1
    /\ message' = parse_packet(clients[c], p)
    /\ h' = NoLocals
    /\ obs' = [NoObs EXCEPT !.via = c, !.raw = parse_packet(clients[c], p),
                            !.base = Len(storage.rows),
                            !.earlier_errors =
                                obs.earlier_errors + Len(obs.raised)]
    /\ hpc' = "check_self"
    /\ UNCHANGED <<settings, clients, client, storage>>
    /\ UNCHANGED mainVars

\* Lines 68-75: the self check against self._client as it is now.
CheckSelf ==
    /\ hpc = "check_self"
    /\ LET seen == [obs EXCEPT
                      !.checked = TRUE,
                      !.self_nums = IF client = 0 THEN {}
                                    ELSE clients[client].self_node_nums,
                      !.self_ids = IF client = 0 THEN {}
                                   ELSE clients[client].self_node_ids]
       IN IF client # 0 /\ is_from_self(clients[client], message)
          THEN hpc' = "done" /\ obs' = Log(seen, "ignore_self")
          ELSE hpc' = "read_history" /\ obs' = seen
    /\ UNCHANGED <<settings, clients, client, storage, message, h, nevents>>
    /\ UNCHANGED mainVars

\* Lines 77-80: the sender's recent history.  The read raises when the
\* connection is closed or the database fails.
ReadHistory ==
    /\ hpc = "read_history"
    /\ \/ /\ ~storage.closed
          /\ \E hist \in get_recent_messages(storage.rows, message.sender_id,
                                             settings.memory_turns * 2) :
               h' = [h EXCEPT !.history = hist]
          /\ obs' = Call(obs, "get_recent_messages")
          /\ hpc' = "add_inbound"
       \/ /\ Raise("sqlite3.Error", Call(obs, "get_recent_messages"))
          /\ h' = h
    /\ UNCHANGED <<settings, clients, client, storage, message, nevents>>
    /\ UNCHANGED mainVars

\* Lines 82-106: the inbound record is stored and message_in logged.
AddInbound ==
    /\ hpc = "add_inbound"
    /\ \/ /\ ~storage.closed
          /\ storage' = [storage EXCEPT !.rows =
                 add_message(@, inbound_record(settings, message))]
          /\ obs' = Log(Call(obs, "add_message"), "message_in")
          /\ hpc' = "admit"
       \/ /\ Raise("sqlite3.Error", Call(obs, "add_message"))
          /\ storage' = storage
    /\ UNCHANGED <<settings, clients, client, message, h, nevents>>
    /\ UNCHANGED mainVars

\* Lines 108-122: admission, the stripped text, the prompt; then generate is
\* called.
Admit ==
    /\ hpc = "admit"
    /\ LET stripped_text == strip_trigger_prefix(message.text,
                                                 settings.trigger_prefix)
       IN IF ~should_respond(settings, message)
          THEN /\ hpc' = "done"
               /\ UNCHANGED <<message, h, obs>>
          ELSE IF stripped_text = << >>
          THEN /\ hpc' = "done"
               /\ obs' = Log([obs EXCEPT !.admitted = TRUE], "empty_trigger")
               /\ UNCHANGED <<message, h>>
          ELSE /\ message' = [message EXCEPT !.text = stripped_text]
               /\ h' = [h EXCEPT
                          !.prompt = build_prompt(
                              [message EXCEPT !.text = stripped_text],
                              h.history, settings.max_reply_chars),
                          !.attempt = 1]
               /\ obs' = Call([obs EXCEPT !.admitted = TRUE], "generate")
               /\ hpc' = "generate"
    /\ UNCHANGED <<settings, clients, client, storage, nevents>>
    /\ UNCHANGED mainVars

\* Lines 123-152, after generate has returned: the reply is normalized and
\* cut; an empty one ends the handling; otherwise it is chunked and the
\* destination derived.
Reply(response, latency_ms, o) ==
    LET reply == enforce_max_length(normalize_reply(response),
                                    settings.max_reply_chars)
        dest == destination(message)
    IN IF reply = << >>
       THEN /\ hpc' = "done"
            /\ obs' = Log(o, "empty_reply")
            /\ h' = [h EXCEPT !.response = response, !.reply = reply,
                              !.latency_ms = latency_ms]
       ELSE /\ hpc' = "send"
            /\ obs' = Log(o, "llm_response")
            /\ h' = [h EXCEPT !.response = response, !.reply = reply,
                              !.latency_ms = latency_ms,
                              !.chunks = chunk_text(reply,
                                                    settings.max_reply_chars),
                              !.idx = 1,
                              !.destination_id = dest.destination_id,
                              !.channel_index = dest.channel_index]

\* generate with a loop of one attempt too many.
has_next_attempt_OffByOne(attempt) == attempt < max_retries + 1

\* Line 44: for attempt in range(1, self._max_retries + 1): a failed attempt
\* is followed by another iff its number is below max_retries.
has_next_attempt(attempt) == attempt < max_retries

\* OllamaClient.generate, lines 44-60: one round trip of the retry loop.  It
\* succeeds; or it fails with an error the loop catches (a request error, a
\* non-success status, a body that is not JSON), and the loop sleeps and goes
\* on, raising RuntimeError after the last attempt; or the body is JSON but
\* no object, and data.get raises an AttributeError the loop does not catch.
AttemptFrom(responses) ==
    /\ hpc = "generate"
    /\ LET o == [obs EXCEPT !.attempts = @ + 1] IN
       \/ \E response \in responses, latency_ms \in Latencies :
            Reply(response, latency_ms, o)
       \/ /\ has_next_attempt(h.attempt)
          /\ h' = [h EXCEPT !.attempt = @ + 1]
          /\ obs' = [o EXCEPT !.failures = @ + 1]
          /\ hpc' = "generate"
       \/ /\ ~has_next_attempt(h.attempt)
          /\ Raise("RuntimeError", [o EXCEPT !.failures = @ + 1])
          /\ h' = h
       \/ /\ Raise("AttributeError", o)
          /\ h' = h
    /\ UNCHANGED <<settings, clients, client, storage, message, nevents>>
    /\ UNCHANGED mainVars

Attempt == AttemptFrom(Responses)

\* Lines 154-170: one chunk is sent through self._client as it is now.
\* send_text raises when that client has no interface; sendText may fail.
Send ==
    /\ hpc = "send"
    /\ LET chunk == h.chunks[h.idx]
           o == Call(obs, "send_text")
       IN IF client = 0
          THEN Raise("RuntimeError", obs) /\ h' = h
          ELSE IF not_connected(clients[client])
          THEN Raise("RuntimeError", o) /\ h' = h
          ELSE \/ /\ obs' = Log([o EXCEPT !.sent = Append(@,
                        [client |-> client, text |-> chunk,
                         chunk_index |-> h.idx,
                         destination_id |-> h.destination_id,
                         channel_index |-> h.channel_index,
                         kwargs |-> send_kwargs(h.destination_id,
                                                h.channel_index)])],
                        "message_out")
                  /\ h' = [h EXCEPT !.idx = @ + 1]
                  /\ hpc' = IF h.idx < Len(h.chunks) THEN "send"
                            ELSE "add_outbound"
               \/ /\ Raise("OSError", o)
                  /\ h' = h
    /\ UNCHANGED <<settings, clients, client, storage, message, nevents>>
    /\ UNCHANGED mainVars

\* Lines 172-183: the outbound record is stored.
AddOutbound ==
    /\ hpc = "add_outbound"
    /\ \/ /\ ~storage.closed
          /\ \E now \in NowTimes :
               storage' = [storage EXCEPT !.rows = add_message(@,
                   outbound_record(message, h.reply, now, h.latency_ms))]
          /\ obs' = Call(obs, "add_message")
          /\ hpc' = "done"
       \/ /\ Raise("sqlite3.Error", Call(obs, "add_message"))
          /\ storage' = storage
    /\ UNCHANGED <<settings, clients, client, message, h, nevents>>
    /\ UNCHANGED mainVars

\* ------------------------------------------------------------ specification
HandlerNext ==
    \/ \E c \in 1..Len(clients), p \in Packets : Deliver(c, p)
    \/ CheckSelf
    \/ ReadHistory
    \/ AddInbound
    \/ Admit
    \/ Attempt
    \/ Send
    \/ AddOutbound

TransportNext ==
    \/ \E c \in 1..Len(clients) : OnDisconnect(c)
    \/ \E c \in 1..Len(clients) : OnConnect(c)

MainNext ==
    \/ ConnectStart
    \/ TryPortOk
    \/ TryPortFail
    \/ WaitReturn
    \/ Interrupt
    \/ Finally
    \/ Sleep
    \/ StorageClose

Next == CreateClient \/ MainNext \/ TransportNext \/ HandlerNext

Spec == Init /\ [][Next]_vars

\* Admission alone, over every combination of settings and message: the
\* handler of a connected bridge has stored the inbound record of the event
\* and is about to evaluate admission.
AdmitSettings ==
    { [trigger_prefix |-> tp, respond_to_dms_only |-> dm,
       allowed_channels |-> ac, allowed_senders |-> as,
       max_reply_chars |-> 2, memory_turns |-> 1] :
      tp \in {<< >>, <<"!">>}, dm \in BOOLEAN, ac \in {{}, {1}, {2}},
      as \in {{}, {<<"7">>}, {<<"!", "a">>}, {<<"!", "b">>}} }

AdmitPackets ==
    { [text |-> t, from |-> f, fromId |-> fi, to |-> d.to, toId |-> d.toId,
       channel |-> c, rxTime |-> 1, id |-> None] :
      t \in Texts \cup {<<"h", "!">>, <<"!", "!", "h">>}, f \in {None, 7},
      fi \in {NoStr, <<"!", "a">>}, d \in Dests, c \in {None, 1, 2} }

Connected ==
    [interface |-> "open",
     local_node |-> [nums |-> {SelfNum}, ids |-> {SelfId}],
     subscribed |-> TRUE, disconnect_event |-> FALSE,
     signals |-> 0, wait_returns |-> 0,
     self_node_ids |-> {SelfId}, self_node_nums |-> {SelfNum}]

InitAdmit ==
    /\ settings \in AdmitSettings
    /\ clients = <<Connected>>
    /\ client = 1
    /\ mpc = "wait"
    /\ backoff = BackoffStart
    /\ nports = 0
    /\ porti = 0
    /\ brk = FALSE
    /\ interrupted = << >>
    /\ nevents = 1
    /\ hpc = "admit"
    /\ h = NoLocals
    /\ \E p \in AdmitPackets :
         /\ message = parse_packet(Connected, p)
         /\ storage = [rows |-> <<inbound_record(settings, message)>>,
                       closed |-> FALSE]
         /\ obs = [NoObs EXCEPT
                     !.via = 1, !.raw = message, !.checked = TRUE,
                     !.self_nums = {SelfNum}, !.self_ids = {SelfId},
                     !.calls = <<"get_recent_messages", "add_message">>,
                     !.log = <<"message_in">>]

NextAdmit == Admit

SpecAdmit == InitAdmit /\ [][NextAdmit]_vars

\* The decoder alone, over every pairing of a numeric destination (absent,
\* 0, the local node, another node, the broadcast address) with a string
\* destination (absent, the three broadcast ids, one of them in capitals,
\* the local node's id, another node's id): a connected session receives
\* one packet and parses it.
DmPackets ==
    { [text |-> t, from |-> 7, fromId |-> <<"!", "a">>, to |-> to,
       toId |-> toId, channel |-> c, rxTime |-> 1, id |-> None] :
      t \in {<<"h">>}, c \in {None, 1},
      to \in {None, 0, SelfNum, 7, BroadcastAddr},
      toId \in BROADCAST_IDS \cup
               {NoStr, <<"A", "L", "L">>, SelfId, <<"!", "a">>} }

InitDm ==
    /\ settings \in SettingsSet
    /\ clients = <<Connected>>
    /\ client = 1
    /\ storage = [rows |-> << >>, closed |-> FALSE]
    /\ mpc = "wait"
    /\ backoff = BackoffStart
    /\ nports = 0
    /\ porti = 0
    /\ brk = FALSE
    /\ hpc = "idle"
    /\ message = NoMessage
    /\ h = NoLocals
    /\ obs = NoObs
    /\ nevents = MaxEvents - 1
    /\ interrupted = << >>

DeliverDm == \E p \in DmPackets : Deliver(1, p)
NextDm == DeliverDm
SpecDm == InitDm /\ [][NextDm]_vars

\* The reply alone, over longer replies and a larger limit: the handler of
\* a connected bridge has admitted an event and calls generate.
ReplySettings ==
    { [trigger_prefix |-> << >>, respond_to_dms_only |-> FALSE,
       allowed_channels |-> {}, allowed_senders |-> {},
       max_reply_chars |-> n, memory_turns |-> 1] : n \in {2, 4} }

ReplyResponses ==
    { <<"a", "b", "c", "d", "e", "f", "g", "h", "i", "j">>,
      <<"a", " ", " ", "b", " ", " ", " ", "c">>,
      <<"a", "b", "c", " ", "d", "e">>,
      <<"a", "b", "c">>,
      <<" ", "a", "\n">>,
      <<" ">> }

\* Senders and destinations of the packets answered: besides those of
\* Packets, a sender known by its number alone (7, and 0), by a string id
\* that is no "!" node id, or by nothing at all; and broadcasts on channel
\* 0 and without a channel.
ReplySenders ==
    Senders \cup { [from |-> 7, fromId |-> NoStr],
                   [from |-> 0, fromId |-> NoStr],
                   [from |-> 7, fromId |-> <<"a">>],
                   [from |-> None, fromId |-> NoStr] }

ReplyDests ==
    Dests \cup { [to |-> BroadcastAddr, toId |-> <<"^", "a", "l", "l">>,
                  channel |-> c] : c \in {None, 0} }

ReplyPackets ==
    { [text |-> t, from |-> s.from, fromId |-> s.fromId, to |-> d.to,
       toId |-> d.toId, channel |-> d.channel, rxTime |-> r, id |-> None] :
      t \in Texts, s \in ReplySenders, d \in ReplyDests, r \in RxTimes }

\* Where the reconnect loop may be while the handler works on an event that
\* the first session delivered: still waiting on that session; or it has
\* closed it and sleeps; or it has created the next session and is about to
\* connect it; or it has connected the next session.
ReplySessions ==
    { [clients |-> <<Connected>>, mpc |-> "wait", backoff |-> BackoffStart],
      [clients |-> <<close(Connected)>>, mpc |-> "sleep",
       backoff |-> BackoffStart],
      [clients |-> <<close(Connected), NewClient>>, mpc |-> "connect",
       backoff |-> NextBackoff(BackoffStart)],
      [clients |-> <<close(Connected), Connected>>, mpc |-> "wait",
       backoff |-> BackoffStart] }

InitReply ==
    /\ settings \in ReplySettings
    /\ \E s \in ReplySessions :
         /\ clients = s.clients
         /\ client = Len(s.clients)
         /\ mpc = s.mpc
         /\ backoff = s.backoff
    /\ nports = 0
    /\ porti = 0
    /\ brk = FALSE
    /\ interrupted = << >>
    /\ nevents = 1
    /\ hpc = "generate"
    /\ \E p \in ReplyPackets :
         LET m == parse_packet(Connected, p) IN
         /\ h = [NoLocals EXCEPT
                   !.prompt = build_prompt(
                       [m EXCEPT !.text = strip_trigger_prefix(
                                     m.text, settings.trigger_prefix)],
                       << >>, settings.max_reply_chars),
                   !.attempt = 1]
         /\ ~is_from_self(Connected, m)
         /\ should_respond(settings, m)
         /\ strip_trigger_prefix(m.text, settings.trigger_prefix) # << >>
         /\ message = [m EXCEPT !.text =
                strip_trigger_prefix(m.text, settings.trigger_prefix)]
         /\ storage = [rows |-> <<inbound_record(settings, m)>>,
                       closed |-> FALSE]
         /\ obs = [NoObs EXCEPT
                     !.via = 1, !.raw = m, !.checked = TRUE,
                     !.self_nums = {SelfNum}, !.self_ids = {SelfId},
                     !.admitted = TRUE,
                     !.calls = <<"get_recent_messages", "add_message",
                                 "generate">>,
                     !.log = <<"message_in">>]

AttemptReply == AttemptFrom(ReplyResponses)

NextReply == AttemptReply \/ Send \/ AddOutbound

SpecReply == InitReply /\ [][NextReply]_vars

\* close() alone, called several times on one session in any state the
\* reconnect loop can leave it in: never connected; or connected, with any
\* number of disconnect signals received and its wait returned or not.
RECURSIVE SignaledTimes(_, _)
SignaledTimes(c, n) ==
    IF n = 0 THEN c ELSE on_disconnect(SignaledTimes(c, n - 1))

Opened ==
    { subscribe(refresh_self_ids([NewClient EXCEPT !.interface = "open",
                                                   !.local_node = info],
                                 info)) : info \in SelfInfos }

CloseStates ==
    {NewClient}
    \cup { SignaledTimes(c, n) : c \in Opened, n \in 0..MaxSignals }
    \cup { [SignaledTimes(c, n) EXCEPT !.wait_returns = 1] :
             c \in Opened, n \in 1..MaxSignals }

\* What may happen inside one close(): interface.close() (lines 97-101) is
\* called when there is a handle, and returns or raises; the pub.unsubscribe
\* calls of _unsubscribe (lines 138-153) are made when the session is
\* subscribed, and return or raise.
CloseOutcomes(c) ==
    [interface_close : IF c.interface = "none" THEN {"skipped"}
                       ELSE {"ok", "OSError"},
     unsubscribe : IF c.subscribed THEN {"ok", "RuntimeError"}
                   ELSE {"skipped"}]

\* The exceptions of an outcome that the except clauses of close and
\* _unsubscribe (except Exception) do not catch.
CloseEscapes(outcome) ==
    \/ outcome.interface_close \notin {"ok", "skipped"}
          /\ ~caught(outcome.interface_close)
    \/ outcome.unsubscribe \notin {"ok", "skipped"}
          /\ ~caught(outcome.unsubscribe)

NoCloses == [outcomes |-> << >>, escaped |-> FALSE]

InitClose ==
    /\ settings \in SettingsSet
    /\ clients \in { <<c>> : c \in CloseStates }
    /\ client = 1
    /\ storage = [rows |-> << >>, closed |-> FALSE]
    /\ mpc = "finally"
    /\ backoff = BackoffStart
    /\ nports = 0
    /\ porti = 0
    /\ brk = FALSE
    /\ hpc = "idle"
    /\ message = NoMessage
    /\ h = NoLocals
    /\ obs = NoCloses
    /\ nevents = 0
    /\ interrupted = << >>

\* meshtastic_client.py, lines 96-105: one call of close().
CloseCall ==
    /\ Len(obs.outcomes) < MaxCloses
    /\ ~obs.escaped
    /\ \E outcome \in CloseOutcomes(clients[client]) :
         /\ obs' = [outcomes |-> Append(obs.outcomes, outcome),
                    escaped |-> CloseEscapes(outcome)]
         /\ clients' = IF CloseEscapes(outcome) THEN clients
                       ELSE [clients EXCEPT ![client] = close(@)]
    /\ UNCHANGED <<settings, client, storage, hpc, message, h, nevents>>
    /\ UNCHANGED mainVars

NextClose == CloseCall
SpecClose == InitClose /\ [][NextClose]_vars

\* chunk_text alone, on every text over two characters up to a length and
\* every chunk size from -1 up to a size.
ChunkTexts == UNION { [1..k -> {"a", "b"}] : k \in 0..MaxLen }
ChunkSizes == (0 - 1)..MaxChunk
NoChunks == [text |-> << >>, chunk_size |-> 0, chunks |-> << >>,
             done |-> FALSE]

InitChunk ==
    /\ settings = CHOOSE st \in SettingsSet : TRUE
    /\ clients = << >>
    /\ client = 0
    /\ storage = [rows |-> << >>, closed |-> FALSE]
    /\ mpc = "loop"
    /\ backoff = BackoffStart
    /\ nports = 0
    /\ porti = 0
    /\ brk = FALSE
    /\ hpc = "idle"
    /\ message = NoMessage
    /\ h = NoLocals
    /\ \E text \in ChunkTexts, n \in ChunkSizes :
         obs = [NoChunks EXCEPT !.text = text, !.chunk_size = n]
    /\ nevents = 0
    /\ interrupted = << >>

\* prompt.py, lines 90-93: one call of chunk_text.
ChunkCall ==
    /\ ~obs.done
    /\ obs' = [obs EXCEPT !.chunks = chunk_text(obs.text, obs.chunk_size),
                          !.done = TRUE]
    /\ UNCHANGED <<settings, clients, client, storage, hpc, message, h,
                   nevents>>
    /\ UNCHANGED mainVars

NextChunk == ChunkCall
SpecChunk == InitChunk /\ [][NextChunk]_vars

\* build_prompt alone, over messages with and without names, channel and
\* line breaks, histories of every length up to a bound, and two limits.
PromptSettings ==
    { [trigger_prefix |-> << >>, respond_to_dms_only |-> FALSE,
       allowed_channels |-> {}, allowed_senders |-> {},
       max_reply_chars |-> n, memory_turns |-> 1] : n \in {2, 120} }

PromptMessages ==
    { [NoMessage EXCEPT !.text = t, !.sender_id = <<"!", "a">>,
                        !.sender_short_name = sn, !.sender_long_name = ln,
                        !.channel = c, !.is_dm = dm, !.rx_time = 1,
                        !.from_num = 7] :
      t \in {<<"h">>, <<"h", "\n", "i">>}, sn \in {NoStr, <<"A">>},
      ln \in {NoStr, <<"A">>, <<"A", "l">>}, c \in {None, 0, 2},
      dm \in BOOLEAN }

PromptRecords ==
    { [direction |-> d, sender_id |-> <<"!", "a">>,
       sender_short_name |-> NoStr, sender_long_name |-> NoStr,
       channel |-> None, text |-> t, timestamp |-> 1, latency_ms |-> None,
       message_id |-> NoStr] :
      d \in {"in", "out"}, t \in {<<"x">>, <<"y">>} }

PromptHistories == UNION { [1..k -> PromptRecords] : k \in 0..MaxHistory }

InitPrompt ==
    /\ settings \in PromptSettings
    /\ clients = <<Connected>>
    /\ client = 1
    /\ storage = [rows |-> << >>, closed |-> FALSE]
    /\ mpc = "wait"
    /\ backoff = BackoffStart
    /\ nports = 0
    /\ porti = 0
    /\ brk = FALSE
    /\ hpc = "admit"
    /\ message \in PromptMessages
    /\ \E history \in PromptHistories :
         h = [NoLocals EXCEPT !.history = history]
    /\ obs = NoObs
    /\ nevents = 1
    /\ interrupted = << >>

\* main.py, lines 116-120, and prompt.py, lines 37-77: one call of
\* build_prompt.
PromptCall ==
    /\ h.prompt = NoPrompt
    /\ h' = [h EXCEPT !.prompt = build_prompt(message, h.history,
                                              settings.max_reply_chars)]
    /\ UNCHANGED <<settings, clients, client, storage, hpc, message, obs,
                   nevents>>
    /\ UNCHANGED mainVars

NextPrompt == PromptCall
SpecPrompt == InitPrompt /\ [][NextPrompt]_vars

\* The reconnect loop and the transport's events alone, over more cycles.
CreateClientLoop == CreateClientUpTo(MaxCycles)

NextLoop == CreateClientLoop \/ MainNext \/ TransportNext

SpecLoop == Init /\ [][NextLoop]_vars

\* The reconnect loop under the scheduling of the main thread: each of its
\* steps that can be taken is taken in the end (a constructor, a connect
\* attempt, close and time.sleep all return; wait_for_disconnect returns
\* once the event is set).  Interrupts and the transport's events are up to
\* the environment and get no fairness.
LoopFairness ==
    /\ WF_vars(CreateClientLoop)
    /\ WF_vars(ConnectStart)
    /\ WF_vars(TryPortOk \/ TryPortFail)
    /\ WF_vars(WaitReturn)
    /\ WF_vars(Finally)
    /\ WF_vars(Sleep)
    /\ WF_vars(StorageClose)
SpecLive == SpecLoop /\ LoopFairness

\* The store alone: any sequence of add_message calls (two senders, time
\* stamps in any order, each row's text its position of insertion), and
\* get_recent_messages calls whose arguments, the rows they saw and their
\* result are kept in obs.
StoreSenders == { <<"!", "a">>, <<"!", "b">> }
StoreTimes == {1, 2}
NoQuery == [sender_id |-> NoStr, limit |-> 0, rows |-> << >>,
            result |-> << >>, made |-> FALSE]

InitStore ==
    /\ settings = CHOOSE st \in SettingsSet : TRUE
    /\ clients = << >>
    /\ client = 0
    /\ storage = [rows |-> << >>, closed |-> FALSE]
    /\ mpc = "loop"
    /\ backoff = BackoffStart
    /\ nports = 0
    /\ porti = 0
    /\ brk = FALSE
    /\ hpc = "idle"
    /\ message = NoMessage
    /\ h = NoLocals
    /\ obs = NoQuery
    /\ nevents = 0
    /\ interrupted = << >>

\* storage.py, lines 61-88: add_message(record).
StoreAdd ==
    /\ Len(storage.rows) < MaxRows
    /\ \E sender \in StoreSenders, ts \in StoreTimes, dir \in {"in", "out"} :
         storage' = [storage EXCEPT !.rows = add_message(@,
             [direction |-> dir, sender_id |-> sender,
              sender_short_name |-> NoStr, sender_long_name |-> NoStr,
              channel |-> None, text |-> Str(Len(storage.rows) + 1),
              timestamp |-> ts, latency_ms |-> None, message_id |-> NoStr])]
    /\ UNCHANGED <<settings, clients, client, obs, hpc, message, h, nevents>>
    /\ UNCHANGED mainVars

\* storage.py, lines 90-116: get_recent_messages(sender_id, limit).
StoreQuery ==
    /\ \E sender \in StoreSenders, limit \in 1..MaxLimit :
         \E result \in get_recent_messages(storage.rows, sender, limit) :
            obs' = [sender_id |-> sender, limit |-> limit,
                    rows |-> storage.rows, result |-> result, made |-> TRUE]
    /\ UNCHANGED <<settings, clients, client, storage, hpc, message, h,
                   nevents>>
    /\ UNCHANGED mainVars

NextStore == StoreAdd \/ StoreQuery
SpecStore == InitStore /\ [][NextStore]_vars

\* The store's lock alone: threads call add_message, get_recent_messages and
\* close on the one store, and each call is taken step by step: the lock is
\* acquired, the statement is executed on the shared connection, an insert
\* is committed, the lock is released.  storage has two more fields here:
\* pending, the rows inserted on the connection and not yet committed, and
\* lock, the thread that holds _lock.  obs holds, for every thread, where it
\* is in its call, and whether a read of its saw an uncommitted row.
LockThreads == 1..MaxThreads
MainThread == 1
IdleThread == [pc |-> "idle", op |-> "none", calls |-> 0, torn |-> FALSE,
               raised |-> 0]
LockRecord(t) ==
    [direction |-> "in", sender_id |-> <<"!", "a">>,
     sender_short_name |-> NoStr, sender_long_name |-> NoStr,
     channel |-> None, text |-> Str(t), timestamp |-> 1, latency_ms |-> None,
     message_id |-> NoStr]

InitLock ==
    /\ settings = CHOOSE st \in SettingsSet : TRUE
    /\ clients = << >>
    /\ client = 0
    /\ storage = [rows |-> << >>, closed |-> FALSE, pending |-> << >>,
                  lock |-> 0]
    /\ mpc = "loop"
    /\ backoff = BackoffStart
    /\ nports = 0
    /\ porti = 0
    /\ brk = FALSE
    /\ hpc = "idle"
    /\ message = NoMessage
    /\ h = NoLocals
    /\ obs = [t \in LockThreads |-> IdleThread]
    /\ nevents = 0
    /\ interrupted = << >>

LockUnchanged ==
    /\ UNCHANGED <<settings, clients, client, hpc, message, h, nevents>>
    /\ UNCHANGED mainVars

\* A thread calls the store: the main thread close() (main.py line 64), a
\* delivery thread get_recent_messages or add_message (main.py lines 77,
\* 94, 183).
LockCall(t) ==
    /\ obs[t].pc = "idle"
    /\ obs[t].calls < MaxCalls
    /\ \E op \in IF t = MainThread THEN {"close"} ELSE {"add", "query"} :
         obs' = [obs EXCEPT ![t].pc = "acquire", ![t].op = op,
                            ![t].calls = @ + 1]
    /\ UNCHANGED storage
    /\ LockUnchanged

\* with self._lock (storage.py lines 62, 91, 119): the lock is acquired.
LockAcquire(t) ==
    /\ obs[t].pc = "acquire"
    /\ can_acquire(storage.lock)
    /\ storage' = [storage EXCEPT !.lock = t]
    /\ obs' = [obs EXCEPT ![t].pc = "execute"]
    /\ LockUnchanged

\* The statement on the connection: the INSERT of add_message (lines 63-88,
\* uncommitted until the with self._conn block ends), the SELECT and
\* fetchall of get_recent_messages (lines 92-101, which on this one
\* connection see its uncommitted rows too), or self._conn.close() (line
\* 120, which drops what is uncommitted).  On a closed connection the
\* statement raises and the with blocks are left.
LockExecute(t) ==
    /\ obs[t].pc = "execute"
    /\ IF obs[t].op = "close"
       THEN /\ storage' = [storage EXCEPT !.closed = TRUE, !.pending = << >>]
            /\ obs' = [obs EXCEPT ![t].pc = "release"]
       ELSE IF storage.closed
       THEN /\ storage' = storage
            /\ obs' = [obs EXCEPT ![t].pc = "release", ![t].raised = @ + 1]
       ELSE IF obs[t].op = "add"
       THEN /\ storage' = [storage EXCEPT
                              !.pending = Append(@, LockRecord(t))]
            /\ obs' = [obs EXCEPT ![t].pc = "commit"]
       ELSE /\ storage' = storage
            /\ obs' = [obs EXCEPT ![t].pc = "release",
                                  ![t].torn = @ \/ storage.pending # << >>]
    /\ LockUnchanged

\* The end of with self._conn in add_message: the connection's transaction
\* is committed (on a closed connection this raises).
LockCommit(t) ==
    /\ obs[t].pc = "commit"
    /\ IF storage.closed
       THEN /\ storage' = storage
            /\ obs' = [obs EXCEPT ![t].pc = "release", ![t].raised = @ + 1]
       ELSE /\ storage' = [storage EXCEPT
                              !.rows = @ \o storage.pending,
                              !.pending = << >>]
            /\ obs' = [obs EXCEPT ![t].pc = "release"]
    /\ LockUnchanged

\* The end of with self._lock: the lock is released, and the call returns
\* or raises.
LockRelease(t) ==
    /\ obs[t].pc = "release"
    /\ storage' = [storage EXCEPT !.lock = 0]
    /\ obs' = [obs EXCEPT ![t].pc = "idle", ![t].op = "none"]
    /\ LockUnchanged

NextLock ==
    \/ \E t \in LockThreads : LockCall(t)
    \/ \E t \in LockThreads : LockAcquire(t)
    \/ \E t \in LockThreads : LockExecute(t)
    \/ \E t \in LockThreads : LockCommit(t)
    \/ \E t \in LockThreads : LockRelease(t)

SpecLock == InitLock /\ [][NextLock]_vars

\* ------------------------------------------------- observations for claims
\* The rows stored since the current event was delivered (one event is
\* handled at a time, so they are the rows its handling stored).
EventRows == SubSeq(storage.rows, obs.base + 1, Len(storage.rows))
IsIn(r) == r.direction = "in"
IsOut(r) == r.direction = "out"
InRows == SelectSeq(EventRows, IsIn)
OutRows == SelectSeq(EventRows, IsOut)
LastLog == IF obs.log = << >> THEN "" ELSE obs.log[Len(obs.log)]
LastCall == IF obs.calls = << >> THEN "" ELSE obs.calls[Len(obs.calls)]
IsError(e) == e = "message_handler_error"
Errors == Len(SelectSeq(obs.log, IsError))
Made(name) == \E i \in 1..Len(obs.calls) : obs.calls[i] = name

\* The event's sender matches a self identifier that self._client held when
\* the handler made the self check.
SelfHit ==
    /\ obs.checked
    /\ \/ obs.raw.from_num \in obs.self_nums
       \/ obs.raw.sender_id \in obs.self_ids

\* The handler has made the self check and found the event not from self.
NotSelf == obs.checked /\ ~SelfHit

\* -------------------------------------------------------------------- claims
\* C1: an event whose numeric or string sender id matches a self identifier
\* recorded by the current transport session is dropped at once: the handler
\* has returned, having made no storage read or append, no inference call and
\* no send.
C1_SelfDropped ==
    SelfHit =>
        /\ hpc = "done"
        /\ obs.calls = << >>
        /\ EventRows = << >>
        /\ obs.attempts = 0
        /\ obs.sent = << >>

\* C1 witness: an event matched by its string sender id alone was dropped.
C1_Witness ==
    /\ SelfHit
    /\ obs.raw.sender_id \in obs.self_ids
    /\ obs.raw.from_num \notin obs.self_nums
    /\ hpc = "done"
    /\ obs.log = <<"ignore_self">>

\* The text the claim says is stored: the raw text less the trigger prefix.
StoredText == strip_trigger_prefix(obs.raw.text, settings.trigger_prefix)

\* The event's inbound row is in the store: exactly one row, direction in,
\* of this sender, with the stripped text.
OneInbound ==
    /\ Len(InRows) = 1
    /\ InRows[1].sender_id = obs.raw.sender_id
    /\ InRows[1].text = StoredText

InboundStorageError ==
    /\ obs.raised = <<"sqlite3.Error">>
    /\ obs.calls \in { <<"get_recent_messages">>,
                       <<"get_recent_messages", "add_message">> }
    /\ LastLog = "message_handler_error"

Admissible(st, m) ==
    /\ ~st.respond_to_dms_only \/ m.is_dm
    /\ st.allowed_channels = {} \/ m.is_dm \/ m.channel \in st.allowed_channels
    /\ \/ st.allowed_senders = {}
       \/ m.sender_id \in st.allowed_senders
       \/ m.from_num # None /\ Str(m.from_num) \in st.allowed_senders
    /\ st.trigger_prefix = << >> \/ StartsWith(m.text, st.trigger_prefix)

\* The handler has stored the inbound record and evaluated admission.
PastAdmission ==
    /\ \E i \in 1..Len(obs.log) : obs.log[i] = "message_in"
    /\ hpc # "admit"

\* C3: _should_respond returns true iff the DM-only check, the channel
\* check, the sender check and the trigger-prefix check (on the raw text)
\* all hold.
C3_FourChecks ==
    PastAdmission => (obs.admitted <=> Admissible(settings, obs.raw))

\* C3 witness: an event admitted because its numeric sender id, rendered as
\* a string, is in the sender allow-list (its string id is not), and because
\* it is a DM (its channel is not in the channel allow-list).
C3_Witness ==
    /\ PastAdmission
    /\ obs.admitted
    /\ settings.allowed_senders # {}
    /\ obs.raw.sender_id \notin settings.allowed_senders
    /\ settings.allowed_channels # {}
    /\ obs.raw.channel \notin settings.allowed_channels
    /\ settings.respond_to_dms_only
    /\ settings.trigger_prefix # << >>

\* The event is eligible for a reply: admission passes and the stripped text
\* is not empty.
Eligible == Admissible(settings, obs.raw) /\ StoredText # << >>

\* C4: the inference client is invoked only for an eligible event; for every
\* other event not from self there is no inference call, no send and no
\* outbound record, and nothing but the inbound record is stored.
C4_InferenceOnlyIfEligible ==
    /\ (Made("generate") \/ obs.attempts > 0) => Eligible
    /\ (NotSelf /\ ~Eligible) =>
          /\ ~Made("generate")
          /\ obs.attempts = 0
          /\ obs.sent = << >>
          /\ OutRows = << >>
          /\ Len(EventRows) <= 1

\* C4 witness: a message that is only the trigger prefix passed admission
\* and was abandoned with its inbound record stored and nothing else done.
C4_Witness ==
    /\ hpc = "done"
    /\ NotSelf
    /\ Admissible(settings, obs.raw)
    /\ StoredText = << >>
    /\ LastLog = "empty_trigger"
    /\ Len(EventRows) = 1
    /\ IsIn(EventRows[1])

\* C5: at the step in which an exception is raised while an event is
\* handled, the handler ends with message_handler_error logged, the
\* exception does not reach the delivery thread, and the reconnect loop and
\* the transport sessions are left as they were; the handler is then ready
\* for the next event.
C5_ErrorsContained ==
    [][ Len(obs'.raised) > Len(obs.raised) =>
          /\ hpc' = "done"
          /\ ~obs'.escaped
          /\ obs'.log = Append(obs.log, "message_handler_error")
          /\ mpc' = mpc
          /\ clients' = clients
          /\ client' = client ]_vars

\* C5 witness: after an event whose handling raised, a later event was
\* answered and its outbound record stored, the bridge still listening.
C5_Witness ==
    /\ obs.earlier_errors > 0
    /\ hpc = "done"
    /\ Len(OutRows) = 1
    /\ mpc = "wait"

\* C6: when every attempt of generate has failed for an admitted event, the
\* handling has ended with no segment sent, no outbound record, the inbound
\* record still in the store and exactly one message_handler_error logged.
C6_InferenceFailure ==
    (obs.failures >= 3) =>
        /\ hpc = "done"
        /\ obs.attempts = 3
        /\ obs.sent = << >>
        /\ ~Made("send_text")
        /\ OutRows = << >>
        /\ OneInbound
        /\ Errors = 1

\* C6 witness: three failed attempts, the event abandoned.
C6_Witness ==
    /\ obs.failures = 3
    /\ obs.raised = <<"RuntimeError">>
    /\ hpc = "done"
    /\ Len(EventRows) = 1

\* Every chunk of the reply has been handed to the transport, in order.
AllSent ==
    /\ h.chunks # << >>
    /\ Len(obs.sent) = Len(h.chunks)
    /\ \A i \in 1..Len(h.chunks) : obs.sent[i].text = h.chunks[i]

RECURSIVE Concat(_)
Concat(texts) ==
    IF texts = << >> THEN << >> ELSE Head(texts) \o Concat(Tail(texts))

SentText == Concat([i \in 1..Len(obs.sent) |-> obs.sent[i].text])

OutboundStorageError ==
    /\ obs.raised = <<"sqlite3.Error">>
    /\ LastCall = "add_message"
    /\ Made("send_text")
    /\ LastLog = "message_handler_error"

\* The calls of a fully answered event: the history read, the inbound
\* append, generate, one send per chunk, and last the outbound append.
AnsweredCalls ==
    <<"get_recent_messages", "add_message", "generate">>
    \o [i \in 1..Len(h.chunks) |-> "send_text"] \o <<"add_message">>

C8_Backoff ==
    /\ [](/\ backoff >= 2
          /\ backoff <= 30
          /\ (clients = << >> => backoff = 2)
          /\ (mpc = "wait" => backoff = 2))
    /\ [][ /\ (mpc = "sleep" /\ mpc' = "loop") =>
                backoff' = (IF backoff * 2 > 30 THEN 30 ELSE backoff * 2)
           /\ (mpc = "try_port" /\ mpc' = "wait") => backoff' = 2
           /\ (~(mpc = "sleep" /\ mpc' = "loop")
                 /\ ~(mpc = "try_port" /\ mpc' = "wait")) =>
                backoff' = backoff ]_vars

\* C8 witness: the delay has reached the cap after failed cycles.
C8_Witness ==
    /\ mpc = "sleep"
    /\ backoff = 30
    /\ \A c \in 1..Len(clients) : clients[c].self_node_nums = {}

IsOpen(c) == clients[c].interface = "open"
IsLive(c) == IsOpen(c) \/ clients[c].subscribed

\* C9: at most one session is open or subscribed; every session but the
\* current one is closed and unsubscribed; while a connect attempt runs
\* (failed candidates included) and between cycles no session is open or
\* subscribed at all.
C9_OneSession ==
    /\ Cardinality({c \in 1..Len(clients) : IsLive(c)}) <= 1
    /\ \A c \in 1..Len(clients) : c # client => ~IsLive(c)
    /\ mpc \in {"loop", "connect", "try_port", "sleep"} =>
          \A c \in 1..Len(clients) : ~IsLive(c)

\* C9 witness: a second session is open after the first, which had
\* connected, was closed; a candidate of the second connect had failed.
C9_Witness ==
    /\ Len(clients) >= 2
    /\ clients[1].self_node_nums # {}
    /\ ~IsLive(1)
    /\ mpc = "try_port"
    /\ porti = 2

\* C10: a user interrupt that arrives during connect, while waiting for a
\* disconnect or during the backoff sleep takes run_forever to the stopped
\* state, through finally and the close of the storage, and in the stopped
\* state every session and the storage are closed.
C10_InterruptStops ==
    (interrupted # << >> /\
     interrupted[1] \in {"connect", "try_port", "wait", "sleep"}) =>
        /\ mpc \in {"finally", "storage_close", "stopped"}
        /\ mpc = "stopped" =>
              /\ storage.closed
              /\ \A c \in 1..Len(clients) : ~IsLive(c)

\* A connect attempt has just failed (no candidate, or every candidate
\* failed), or a disconnect has ended the wait; no break is pending.
CycleEnded == mpc = "finally" /\ ~brk

\* A disconnect has been signaled to the session run_forever waits on.
Disconnected == mpc = "wait" /\ clients[client].disconnect_event

\* C11: run_forever ends only by a user interrupt, and, as long as no
\* interrupt has arrived, every failed connect and every disconnect is
\* followed in the end by a new connect attempt (within the cycles the
\* model runs).
C11_Reconnects ==
    /\ [](mpc \in {"storage_close", "stopped", "crashed"} =>
             interrupted # << >>)
    /\ ((CycleEnded \/ Disconnected) /\ Len(clients) < MaxCycles)
          ~> (mpc = "connect" \/ interrupted # << >>)

\* C11 witness: with no interrupt, a third connect attempt starts after a
\* session that had connected and one that had not.
C11_Witness ==
    /\ interrupted = << >>
    /\ mpc = "connect"
    /\ client = 3
    /\ clients[1].self_node_nums # {}
    /\ clients[2].self_node_nums = {}
    /\ backoff = 4

\* The rows of the queried sender, in the order they were appended.
OfQueriedSender(r) == r.sender_id = obs.sender_id
OwnRows == SelectSeq(obs.rows, OfQueriedSender)

\* The most recently appended rows of the sender, at most limit of them,
\* oldest first in insertion order.
LastAppended ==
    SubSeq(OwnRows, Len(OwnRows) - Min(obs.limit, Len(OwnRows)) + 1,
           Len(OwnRows))

\* C12: get_recent_messages(sender, limit) returns only rows of that sender,
\* at most limit of them, and they are the most recently appended ones,
\* oldest first in insertion order, whatever the time stamps of the rows.
C12_RecentInInsertionOrder ==
    obs.made =>
        /\ \A i \in 1..Len(obs.result) : obs.result[i].sender_id = obs.sender_id
        /\ Len(obs.result) <= obs.limit
        /\ obs.result = LastAppended

\* The segment size the claim's example implies: half the reply limit (two
\* segments of 50 for a limit of 100).
HalfLimit == settings.max_reply_chars \div 2

\* C13: a model reply longer than max_reply_chars is normalized and cut to
\* max_reply_chars, then chunked into segments of half the limit or fewer
\* (two of them when the cut reply fills the limit), which are sent in order
\* with increasing chunk index.
C13_TwoSegments ==
    (h.chunks # << >> /\ Len(h.response) > settings.max_reply_chars) =>
        /\ h.reply = enforce_max_length(normalize_reply(h.response),
                                        settings.max_reply_chars)
        /\ Len(h.reply) <= settings.max_reply_chars
        /\ Concat(h.chunks) = h.reply
        /\ \A i \in 1..Len(h.chunks) : Len(h.chunks[i]) <= HalfLimit
        /\ Len(h.reply) = settings.max_reply_chars => Len(h.chunks) = 2
        /\ \A i \in 1..Len(obs.sent) :
              /\ obs.sent[i].text = h.chunks[i]
              /\ obs.sent[i].chunk_index = i

\* generate has raised: the handling ended with an error while generate was
\* the last call made.
GenerateRaised ==
    /\ hpc \in {"done", "escaped"}
    /\ LastCall = "generate"
    /\ obs.raised # << >>

\* C14: generate makes at most max_retries round trips; every failed round
\* trip (transport error, non-success status, malformed body) is counted and
\* retried; generate raises exactly when max_retries round trips have
\* failed, and what it raises is the RuntimeError wrapping the last error.
C14_Retries ==
    /\ obs.attempts <= max_retries
    /\ GenerateRaised =>
          /\ obs.raised = <<"RuntimeError">>
          /\ obs.attempts = max_retries
          /\ obs.failures = max_retries
    /\ obs.failures = max_retries => GenerateRaised

\* Every admission check but the trigger-prefix rule passes for the event:
\* _should_respond run on it with the rule switched off (an empty prefix).
OthersPass == should_respond([settings EXCEPT !.trigger_prefix = << >>], obs.raw)

\* The event with its text replaced by the stripped text, as line 115 leaves
\* it, and the admission decision on it.
StrippedEvent == [obs.raw EXCEPT !.text = StoredText]
Rechecked == should_respond(settings, StrippedEvent)

\* The event has passed through admission under a non-empty trigger prefix.
PrefixChecked == PastAdmission /\ settings.trigger_prefix # << >>

\* C15 as stated: under a non-empty prefix p, a text that starts with p is
\* stripped and then passes the trigger-prefix rule when it is checked again;
\* a text that does not start with p is rejected on that rule alone.
C15_Original ==
    (PrefixChecked /\ OthersPass) =>
        /\ StartsWith(obs.raw.text, settings.trigger_prefix) => Rechecked
        /\ ~StartsWith(obs.raw.text, settings.trigger_prefix) => ~obs.admitted

\* C15 amended: under a non-empty prefix p, the rule passes on a text that
\* starts with p and rejects, alone, a text that does not; the stripped text
\* is the text without p and the whitespace after it, and it passes the rule
\* again only when it starts with p itself.
C15_StripThenCheck ==
    PrefixChecked =>
        /\ obs.admitted <=>
              (StartsWith(obs.raw.text, settings.trigger_prefix) /\ OthersPass)
        /\ StartsWith(obs.raw.text, settings.trigger_prefix) =>
              /\ StoredText = LStrip(SubSeq(obs.raw.text,
                                            Len(settings.trigger_prefix) + 1,
                                            Len(obs.raw.text)))
              /\ OthersPass =>
                    (Rechecked <=> StartsWith(StoredText, settings.trigger_prefix))
        /\ ~StartsWith(obs.raw.text, settings.trigger_prefix) =>
              StoredText = obs.raw.text

\* C15 witness: a text admitted under the prefix whose stripped text, now the
\* text of the event, no longer passes the rule.
C15_Witness ==
    /\ PrefixChecked
    /\ obs.admitted
    /\ hpc = "generate"
    /\ message.text = StoredText
    /\ StoredText = <<"h">>
    /\ ~should_respond(settings, message)

\* Steps of connect(): it starts on the candidates, moves on to the next
\* candidate, returns, or raises (a step to finally that is no interrupt).
ConnectBegins == mpc = "connect" /\ mpc' = "try_port"
ConnectMovesOn == mpc = "try_port" /\ mpc' = "try_port"
ConnectReturns == mpc = "try_port" /\ mpc' = "wait"
ConnectRaises ==
    /\ mpc \in {"connect", "try_port"}
    /\ mpc' = "finally"
    /\ interrupted' = interrupted

\* C16: connect tries the candidates in list order, one after the other,
\* starting with the first; it returns at the first candidate that connects,
\* with the interface open, the self identifiers the interface reports
\* recorded and the events subscribed; it raises only when the list is empty
\* or its last candidate has failed, and then no interface is left open.
C16_Connect ==
    [][ /\ ConnectBegins => (porti' = 1 /\ nports' >= 1 /\ clients' = clients)
        /\ ConnectMovesOn =>
              /\ porti' = porti + 1
              /\ porti' <= nports
              /\ nports' = nports
              /\ clients' = clients
        /\ ConnectReturns =>
              /\ porti \in 1..nports
              /\ clients'[client].interface = "open"
              /\ clients'[client].subscribed
              /\ clients'[client].local_node.nums \subseteq
                    clients'[client].self_node_nums
              /\ clients'[client].local_node.ids \subseteq
                    clients'[client].self_node_ids
        /\ ConnectRaises =>
              /\ porti = nports
              /\ clients' = clients
              /\ clients[client].interface = "none"
              /\ ~clients[client].subscribed ]_vars

\* C16 witness: connect has returned: the session is open and subscribed and
\* holds the numeric and the string identifier of the local node.
C16_Witness ==
    /\ mpc = "wait"
    /\ clients[client].interface = "open"
    /\ clients[client].subscribed
    /\ clients[client].self_node_nums = {SelfNum}
    /\ clients[client].self_node_ids = {SelfId}
    /\ ~clients[client].disconnect_event

\* The handler makes its send step while self._client has no connection.
SendsUnconnected ==
    /\ hpc = "send"
    /\ obs' # obs
    /\ clients[client].interface = "none"

\* C17: a send on a session that has no connection (never connected, or
\* closed) raises the not-connected RuntimeError and hands nothing to the
\* transport; the handler ends the event with one message_handler_error, the
\* error does not leave the handler, and nothing is stored.
C17_NotConnected ==
    [][ SendsUnconnected =>
          /\ obs'.sent = obs.sent
          /\ obs'.raised = Append(obs.raised, "RuntimeError")
          /\ obs'.log = Append(obs.log, "message_handler_error")
          /\ hpc' = "done"
          /\ ~obs'.escaped
          /\ storage' = storage
          /\ clients' = clients ]_vars

\* C17 witness: the reply of an event was to be sent through a session that
\* had never connected; the event ended with the error and nothing was sent.
C17_Witness ==
    /\ hpc = "done"
    /\ client = 2
    /\ clients[client] = NewClient
    /\ LastCall = "send_text"
    /\ obs.raised = <<"RuntimeError">>
    /\ obs.sent = << >>
    /\ OutRows = << >>

\* wait_for_disconnect of the current session returns (the event is set; a
\* KeyboardInterrupt leaves the wait another way).
WaitReturns == mpc = "wait" /\ mpc' = "finally" /\ interrupted' = interrupted

\* A disconnect has been signaled to the session run_forever is to wait on
\* or waits on.  (mpc = "wait" is the time from the return of connect to the
\* return of wait_for_disconnect: a signal before the call and one during it
\* both find the thread there, and Event.wait() treats them alike.)
Signaled == mpc = "wait" /\ clients[client].signals > 0

\* C18: once a disconnect has been signaled to a session, its
\* wait_for_disconnect returns in the end; it returns only when a signal has
\* arrived, and at most once for each session, however many signals arrive.
C18_WaitUnblocks ==
    /\ [](\A c \in 1..Len(clients) :
            /\ clients[c].wait_returns <= 1
            /\ clients[c].signals > 0 => clients[c].disconnect_event)
    /\ [][ WaitReturns =>
             /\ clients[client].signals >= 1
             /\ clients[client].wait_returns = 0
             /\ clients'[client].wait_returns = 1 ]_vars
    /\ Signaled ~> (mpc # "wait")

\* C18 witness: two disconnect signals have reached a session and its
\* wait_for_disconnect has returned once.
C18_Witness ==
    /\ mpc = "finally"
    /\ interrupted = << >>
    /\ clients[client].signals = 2
    /\ clients[client].wait_returns = 1

\* The session has no connection handle and receives no transport event.
Released(c) ==
    /\ c.interface = "none"
    /\ c.local_node = NoInfo
    /\ ~c.subscribed
    /\ ~c.disconnect_event

\* C19: every close() returns without raising and leaves the session with
\* no connection handle and unsubscribed, whether or not closing the
\* interface or unsubscribing raised; a close() after the first changes
\* nothing.
C19_CloseReleases ==
    [][ obs'.outcomes # obs.outcomes =>
          /\ ~obs'.escaped
          /\ Released(clients'[client])
          /\ clients'[client].self_node_nums = clients[client].self_node_nums
          /\ clients'[client].self_node_ids = clients[client].self_node_ids
          /\ obs.outcomes # << >> => clients' = clients ]_vars

\* C19 witness: the interface raised while the first close() closed it; the
\* session is released all the same, and a second close() has been made.
C19_Witness ==
    /\ Len(obs.outcomes) = 2
    /\ obs.outcomes[1].interface_close = "OSError"
    /\ obs.outcomes[1].unsubscribe = "RuntimeError"
    /\ obs.outcomes[2].interface_close = "skipped"
    /\ Released(clients[client])
    /\ clients[client].self_node_ids = {SelfId}

\* C20: for n > 0 the segments of chunk_text(text, n), concatenated in
\* order, are text, and every segment but the last has exactly n characters
\* (the last has between 1 and n); for n <= 0 the result is the one segment
\* text.
C20_ChunkText ==
    obs.done =>
        /\ obs.chunk_size > 0 =>
              /\ Concat(obs.chunks) = obs.text
              /\ \A i \in 1..Len(obs.chunks) :
                    /\ i < Len(obs.chunks) =>
                          Len(obs.chunks[i]) = obs.chunk_size
                    /\ Len(obs.chunks[i]) >= 1
                    /\ Len(obs.chunks[i]) <= obs.chunk_size
        /\ obs.chunk_size <= 0 => obs.chunks = <<obs.text>>

\* C20 witness: a text of four characters cut by three: a full segment and a
\* last one of a single character.
C20_Witness ==
    /\ obs.done
    /\ obs.text = <<"a", "b", "b", "a">>
    /\ obs.chunk_size = 3
    /\ obs.chunks = << <<"a", "b", "b">>, <<"a">> >>

\* The position after the first occurrence of part in text at or after
\* position from; 0 when there is none (or from is 0).
FindFrom(text, part, from) ==
    LET at == { i \in 1..(Len(text) - Len(part) + 1) :
                  i >= from /\ SubSeq(text, i, i + Len(part) - 1) = part }
    IN IF from = 0 \/ at = {} THEN 0
       ELSE (CHOOSE i \in at : \A j \in at : i <= j) + Len(part)

\* The position after the parts found one after the other in text, from
\* position from on; 0 when they are not all there in this order.
RECURSIVE FindAll(_, _, _)
FindAll(text, parts, from) ==
    IF parts = << >> THEN from
    ELSE FindAll(text, Tail(parts), FindFrom(text, Head(parts), from))

EndsWith(text, suffix) ==
    /\ Len(suffix) <= Len(text)
    /\ SubSeq(text, Len(text) - Len(suffix) + 1, Len(text)) = suffix

\* The display name of the event being handled, and whether its long name
\* is another name.
DisplayName ==
    IF message.sender_short_name # NoStr THEN message.sender_short_name
    ELSE IF message.sender_long_name # NoStr THEN message.sender_long_name
    ELSE <<"Unknown">>
LongNameDistinct ==
    message.sender_long_name # NoStr /\ message.sender_long_name # DisplayName

\* The lines the claim lists for the history: one per record, in order.
HistoryLine(r) ==
    <<IF r.direction = "in" THEN "User" ELSE "Assistant", ": ">> \o r.text
RECURSIVE HistoryPart(_)
HistoryPart(history) ==
    IF history = << >> THEN << >>
    ELSE HistoryLine(Head(history)) \o <<"\n">> \o HistoryPart(Tail(history))

\* C21: the prompt built for an event has the fixed system instruction, and
\* its user part holds, in this order: the sender line (first), the long-name
\* line when and only when the long name is another name than the display
\* name, the sender id, the channel label (DM, else the channel index, else
\* unknown), the message text, the history marker followed by one line per
\* history record in the given order (User for direction in, Assistant
\* otherwise; (none) for an empty history), and last the line of the limit.
C21_PromptLayout ==
    h.prompt # NoPrompt =>
        /\ h.prompt.system = <<"Reply briefly in 10 words or less.">>
        /\ StartsWith(h.prompt.user, <<"Sender: ">> \o DisplayName \o <<"\n">>)
        /\ FindAll(h.prompt.user,
             << <<"Sender: ">> \o DisplayName \o <<"\n">>,
                IF LongNameDistinct
                THEN <<"Sender Long Name: ">> \o message.sender_long_name
                         \o <<"\n">>
                ELSE << >>,
                <<"Sender ID: ">> \o message.sender_id \o <<"\n">>,
                <<"Channel: ">> \o
                    (IF message.is_dm THEN <<"DM">>
                     ELSE IF message.channel = None THEN <<"unknown">>
                     ELSE Str(message.channel)) \o <<"\n">>,
                <<"\n">> \o message.text \o <<"\n">>,
                <<"\n", "Conversation history:", "\n">> \o
                    (IF h.history = << >> THEN <<"(none)", "\n">>
                     ELSE HistoryPart(h.history)),
                <<"\n", "Reply in <= ">> \o Str(settings.max_reply_chars)
                    \o <<" characters.">> >>, 1) = Len(h.prompt.user) + 1
        /\ ~LongNameDistinct =>
              \A i \in 1..Len(h.prompt.user) :
                  h.prompt.user[i] # "Sender Long Name: "

\* C21 witness: a prompt for a channel message of a sender with a short and
\* another long name, with a history of an inbound and an outbound record.
C21_Witness ==
    /\ h.prompt # NoPrompt
    /\ LongNameDistinct
    /\ message.sender_short_name # NoStr
    /\ ~message.is_dm
    /\ message.channel = 2
    /\ Len(h.history) = 2
    /\ h.history[1].direction = "in"
    /\ h.history[2].direction = "out"
    /\ settings.max_reply_chars = 120

\* C22: the handler takes its steps in the listed order: whenever the
\* sender's history has been fetched for an event, the inbound record of the
\* event was appended before that call and admission had passed.
C22_HistoryAfterAdmission ==
    \A i \in 1..Len(obs.calls) :
        obs.calls[i] = "get_recent_messages" =>
            /\ obs.admitted
            /\ \E j \in 1..(i - 1) : obs.calls[j] = "add_message"

\* The destination the claim names for the event being handled.  The event
\* has a string sender id when its packet carried one (fromId).
HasStringId == obs.raw.raw.fromId # NoStr
ClaimedDestination ==
    IF obs.raw.is_dm
    THEN [destination_id |-> IF HasStringId THEN DestStr(obs.raw.sender_id)
                             ELSE DestNum(obs.raw.from_num),
          channel_index |-> None]
    ELSE [destination_id |-> DestNone,
          channel_index |-> IF obs.raw.channel # None THEN obs.raw.channel
                            ELSE 0]

\* The destination _handle_message derives: for a DM the sender id when it
\* is a "!" node id, else the sender's number when the event has one, else
\* the sender id whatever it is.
DerivedDestination ==
    IF obs.raw.is_dm
    THEN [destination_id |->
              IF obs.raw.sender_id[1] = "!" THEN DestStr(obs.raw.sender_id)
              ELSE IF obs.raw.from_num # None THEN DestNum(obs.raw.from_num)
              ELSE DestStr(obs.raw.sender_id),
          channel_index |-> None]
    ELSE ClaimedDestination

SentTo(i) == [destination_id |-> obs.sent[i].destination_id,
              channel_index |-> obs.sent[i].channel_index]

\* C23 as stated: every segment is handed to send_text with the destination
\* derived from the original event: for a DM the string sender id when the
\* event has one, else the numeric sender id; for a message on a channel
\* that channel, or channel 0 when the event has none.
C23_Original ==
    \A i \in 1..Len(obs.sent) : SentTo(i) = ClaimedDestination

\* C23 amended: every segment is handed to send_text with one destination,
\* derived from the original event: for a DM the sender id when it starts
\* with "!", else the numeric sender id when the event has one, else the
\* sender id (the packet's string id of another form, or the decoder's
\* "unknown"), and no channel; for a message on a channel no destination id
\* and that channel, or channel 0 when the event has none.
C23_Destination ==
    \A i \in 1..Len(obs.sent) : SentTo(i) = DerivedDestination

\* C23 witness: a segment answering a DM whose packet carried a string id
\* that is no "!" node id went to the sender's number.
C23_Witness ==
    /\ obs.sent # << >>
    /\ obs.raw.is_dm
    /\ HasStringId
    /\ obs.raw.sender_id = <<"a">>
    /\ obs.sent[1].destination_id = DestNum(7)
    /\ obs.sent[1].channel_index = None

\* The packet of the event being handled, and what it says of the
\* destination.
Delivered == obs.via # 0
ToIdIsSentinel == Lower(obs.raw.raw.toId) \in BROADCAST_IDS
ToIsBroadcast == obs.raw.raw.to = BroadcastAddr

HasDestination ==
    \/ obs.raw.raw.toId # NoStr /\ ~ToIdIsSentinel
    \/ obs.raw.raw.to # None /\ obs.raw.raw.to \notin BROADCAST_NUMS

\* C24: a packet is classified as a direct message exactly when it has a
\* destination id (string or numeric) that is non-empty and no broadcast
\* identifier; one whose destination id is a sentinel (in any case of
\* letters), or whose numeric destination is the broadcast address, is never
\* classified as a direct message.
C24_DmClassification ==
    Delivered =>
        /\ obs.raw.is_dm <=> HasDestination
        /\ (ToIdIsSentinel \/ ToIsBroadcast) => ~obs.raw.is_dm

\* C25: an event is immutable once produced: at every step of its handling
\* and after it, every field of the event object, its text included, is as
\* the decoder produced it.
C25_EventImmutable == Delivered => message = obs.raw

\* The threads that are at the store's connection: past the acquisition of
\* the lock and not yet past its release.
AtConnection == { t \in LockThreads : obs[t].pc \in {"execute", "commit",
                                                     "release"} }

\* C26: add_message, the query of get_recent_messages and close are
\* serialized by one lock: at most one thread is at the connection at a
\* time, that thread holds the lock, and no read has seen a row of an append
\* that was not yet committed.
C26_Serialized ==
    /\ Cardinality(AtConnection) <= 1
    /\ \A t \in AtConnection : storage.lock = t
    /\ \A t \in LockThreads : ~obs[t].torn

\* C26 witness: a delivery thread has inserted a row and not yet committed
\* it, while another one, calling get_recent_messages, and the main thread,
\* calling close, wait for the lock.
C26_Witness ==
    \E t, u \in LockThreads :
        /\ obs[t].pc = "commit"
        /\ storage.pending # << >>
        /\ obs[u].pc = "acquire"
        /\ obs[u].op = "query"
        /\ obs[MainThread].pc = "acquire"

\* C27: every segment of the reply to an event goes out through the session
\* that delivered the event, also when run_forever has closed that session
\* and made another one current in the meantime.
C27_SameSession ==
    \A i \in 1..Len(obs.sent) : obs.sent[i].client = obs.via

\* C28: every segment answering a direct message is handed to the
\* transport (interface.sendText) with a destination id and without a
\* channel index, whatever sender id and sender number the decoder produced.
C28_DmNeverBroadcast ==
    obs.raw.is_dm =>
        \A i \in 1..Len(obs.sent) :
            /\ obs.sent[i].kwargs.has_destinationId
            /\ ~obs.sent[i].kwargs.has_channelIndex

\* C29: every segment handed to send_text is non-empty, begins and ends
\* with a character that is no whitespace, and has at most max_reply_chars
\* characters.
C29_SegmentsClean ==
    \A i \in 1..Len(obs.sent) :
        LET text == obs.sent[i].text IN
        /\ text # << >>
        /\ ~IsSpace(text[1])
        /\ ~IsSpace(text[Len(text)])
        /\ Len(text) <= settings.max_reply_chars

\* C29 witness: a response with runs of whitespace, longer than the limit of
\* two characters, went out as the one character left after the cut ended in
\* a space.
C29_Witness ==
    /\ settings.max_reply_chars = 2
    /\ h.response = <<"a", " ", " ", "b", " ", " ", " ", "c">>
    /\ Len(obs.sent) = 1
    /\ obs.sent[1].text = <<"a">>

\* The number of rows of a sender and a direction among the first k rows.
CountRows(sender_id, direction, k) ==
    Cardinality({ i \in 1..k : /\ storage.rows[i].sender_id = sender_id
                               /\ storage.rows[i].direction = direction })

\* Every outbound row has its own inbound row of the same sender before it:
\* up to every outbound row, the sender has more inbound rows than outbound
\* rows before it.
OutboundAnswersInbound ==
    \A k \in 1..Len(storage.rows) :
        storage.rows[k].direction = "out" =>
            CountRows(storage.rows[k].sender_id, "in", k - 1)
                > CountRows(storage.rows[k].sender_id, "out", k - 1)

\* No step modifies or removes a row: the rows before the step are the
\* first rows after it.
RowsKept ==
    /\ Len(storage'.rows) >= Len(storage.rows)
    /\ SubSeq(storage'.rows, 1, Len(storage.rows)) = storage.rows

\* C30: in every reachable state of the store each outbound record of a
\* sender is preceded, in insertion order, by the inbound record of the
\* event it answers, so that no sender has more outbound than inbound
\* records; and no step modifies or removes an existing record.
C30_StoreHistory ==
    /\ [](/\ OutboundAnswersInbound
          /\ \A k \in 1..Len(storage.rows) :
                CountRows(storage.rows[k].sender_id, "out", Len(storage.rows))
                    <= CountRows(storage.rows[k].sender_id, "in",
                                 Len(storage.rows)))
    /\ [][RowsKept]_vars

\* C30 witness: two events of one sender were answered: the store holds
\* inbound, outbound, inbound, outbound.
C30_Witness ==
    /\ Len(storage.rows) = 4
    /\ \A k \in 1..4 :
          /\ storage.rows[k].sender_id = storage.rows[1].sender_id
          /\ storage.rows[k].direction = IF k % 2 = 1 THEN "in" ELSE "out"

====
